---- MODULE Spec2Model ----
(***************************************************************************)
(* Model of compLex.go: character acceptors and their combinators.        *)
(*                                                                         *)
(* An Acceptor is a Go closure func(rune) bool.  A closure is modelled as  *)
(* a record: the field kind names the function that built it, the other    *)
(* fields are the variables the closure captured (count, seen, i,          *)
(* internal, the wrapped acceptors).  Calling the closure is an operator   *)
(* XxxCall(self, rn) that yields the returned bool (out), the panic value  *)
(* if the call panicked (panic), and the closure's captured variables      *)
(* after the call (self).  A rune is its code point.                       *)
(*                                                                         *)
(* Every acceptor passed to a combinator is its own instance: one instance *)
(* captured by two combinators (aliasing) is not modelled.                 *)
(***************************************************************************)
EXTENDS Integers, Sequences, FiniteSets, TLC

VARIABLES fresh, acc, input, output, printed, callers

vars == <<fresh, acc, input, output, printed, callers>>

(* Bounds of the model. *)
MaxLen == 3
MaxCount == 2
MaxArity == 2

(* 'a', 'b', 'x', 'y' *)
Rune == {97, 98, 120, 121}

(* The payloads callers hand to the assertions. *)
Errors == {"errStart", "errMost"}

NoPanic == "none"

(* The runtime error of calling a nil func value. *)
NilDeref == "nil dereference"

Ret(b, self) == [out |-> b, panic |-> NoPanic, self |-> self]

Panic(err, self) == [out |-> FALSE, panic |-> err, self |-> self]

Panicked(r) == r.panic # NoPanic

(***************************************************************************)
(* Constructors: the state each function captures when it returns.        *)
(***************************************************************************)

Nil == [kind |-> "nil"]

Acc(spec) ==
    CASE spec.type = "Acceptor" -> spec.val
      [] spec.type = "rune" -> [kind |-> "AccRune", spec |-> spec.val]
      [] spec.type = "[]rune" -> [kind |-> "AccRunes", spec |-> spec.val]
      [] spec.type = "string" -> [kind |-> "AccString", spec |-> spec.val]
      [] OTHER -> Nil

AccRune(r) == Acc([type |-> "rune", val |-> r])

All == [kind |-> "All"]

None == [kind |-> "None"]

statify(ref) == [tag |-> "statify", ref |-> ref]

NilState == [tag |-> "nil"]

Branch(mapping, alt) ==
    [kind |-> "Branch", mapping |-> mapping, alt |-> alt,
     internal |-> [tag |-> "dispatch"]]

FirstOf(accs) ==
    [kind |-> "FirstOf", accs |-> accs, internal |-> [tag |-> "probe"]]

Truncate(max, a) == [kind |-> "Truncate", max |-> max, count |-> 0, acc |-> a]

EndsBefore(delim, a) == [kind |-> "EndsBefore", delim |-> delim, acc |-> a]

EndsWith(delim, a) ==
    [kind |-> "EndsWith", delim |-> delim, seen |-> FALSE, acc |-> a]

Chain(accs) == [kind |-> "Chain", i |-> 0, n |-> Len(accs), accs |-> accs]

(* A prefix that lets one character too many through. *)
SkipOneMore(skip, a) == Chain(<<Truncate(skip + 1, All), a>>)

(* A prefix that is matched against acc instead of being discarded. *)
SkipMatches(skip, a) == Chain(<<Truncate(skip, a), a>>)

Skip(skip, a) == Chain(<<Truncate(skip, All), a>>)

AssertStart(a, err) ==
    [kind |-> "AssertStart", acc |-> a, err |-> err,
     internal |-> [tag |-> "first"]]

AssertAtMost(a, most, err) ==
    [kind |-> "AssertAtMost", acc |-> a, most |-> most, err |-> err,
     count |-> 0]

(***************************************************************************)
(* The closures' bodies.                                                   *)
(***************************************************************************)

RECURSIVE Apply(_, _)
RECURSIVE ChainLoop(_, _)
RECURSIVE ChainLoopSwallows(_, _)
RECURSIVE FirstOfProbe(_, _, _)

AccRuneCall(self, rn) == Ret(rn = self.spec, self)

(* A loop that gives up after comparing with the first element. *)
AccRunesCallFirstOnly(self, rn) ==
    Ret(self.spec # <<>> /\ rn = self.spec[1], self)

AccRunesCall(self, rn) ==
    Ret(\E k \in 1..Len(self.spec) : rn = self.spec[k], self)

AccStringCall(self, rn) ==
    Ret(\E k \in 1..Len(self.spec) : rn = self.spec[k], self)

AllCall(self, rn) == Ret(TRUE, self)

NoneCall(self, rn) == Ret(FALSE, self)

NilCall(self, rn) == Panic(NilDeref, self)

(* A bound that closes as soon as the wrapped acceptor rejects. *)
TruncateCallLatches(self, rn) ==
    IF self.count < self.max
    THEN LET r == Apply(self.acc, rn)
             s1 == [self EXCEPT !.acc = r.self]
         IN  IF Panicked(r) THEN Panic(r.panic, s1)
             ELSE IF r.out THEN Ret(TRUE, [s1 EXCEPT !.count = @ + 1])
             ELSE Ret(FALSE, [s1 EXCEPT !.max = s1.count])
    ELSE Ret(FALSE, self)

(* A bound that is off by one: count <= max. *)
TruncateCallOffByOne(self, rn) ==
    IF self.count <= self.max
    THEN LET r == Apply(self.acc, rn)
             s1 == [self EXCEPT !.acc = r.self]
         IN  IF Panicked(r) THEN Panic(r.panic, s1)
             ELSE IF r.out THEN Ret(TRUE, [s1 EXCEPT !.count = @ + 1])
             ELSE Ret(FALSE, s1)
    ELSE Ret(FALSE, self)

TruncateCall(self, rn) ==
    IF self.count < self.max
    THEN LET r == Apply(self.acc, rn)
             s1 == [self EXCEPT !.acc = r.self]
         IN  IF Panicked(r) THEN Panic(r.panic, s1)
             ELSE IF r.out THEN Ret(TRUE, [s1 EXCEPT !.count = @ + 1])
             ELSE Ret(FALSE, s1)
    ELSE Ret(FALSE, self)

(* A wrapped acceptor that is asked about the delimiter too. *)
EndsBeforeCallAsks(self, rn) ==
    LET r == Apply(self.acc, rn)
        s1 == [self EXCEPT !.acc = r.self]
    IN  IF Panicked(r) THEN Panic(r.panic, s1)
        ELSE IF rn = self.delim THEN Ret(FALSE, s1)
        ELSE Ret(r.out, s1)

EndsBeforeCall(self, rn) ==
    IF rn = self.delim
    THEN Ret(FALSE, self)
    ELSE LET r == Apply(self.acc, rn)
         IN  [r EXCEPT !.self = [self EXCEPT !.acc = r.self]]

(* A delimiter that is accepted every time it comes. *)
EndsWithCallForgets(self, rn) ==
    IF rn = self.delim
    THEN Ret(TRUE, self)
    ELSE LET r == Apply(self.acc, rn)
         IN  [r EXCEPT !.self = [self EXCEPT !.acc = r.self]]

EndsWithCall(self, rn) ==
    IF self.seen
    THEN Ret(FALSE, self)
    ELSE IF rn = self.delim
    THEN Ret(TRUE, [self EXCEPT !.seen = TRUE])
    ELSE LET r == Apply(self.acc, rn)
         IN  [r EXCEPT !.self = [self EXCEPT !.acc = r.self]]

(* A loop that takes a stage's panic for a rejection and moves on. *)
ChainLoopSwallows(self, rn) ==
    IF self.i # self.n
    THEN LET r == Apply(self.accs[self.i + 1], rn)
             s1 == [self EXCEPT !.accs[self.i + 1] = r.self]
         IN  IF ~Panicked(r) /\ r.out THEN Ret(TRUE, s1)
             ELSE ChainLoopSwallows([s1 EXCEPT !.i = @ + 1], rn)
    ELSE Ret(FALSE, self)

ChainLoop(self, rn) ==
    IF self.i # self.n
    THEN LET r == Apply(self.accs[self.i + 1], rn)
             s1 == [self EXCEPT !.accs[self.i + 1] = r.self]
         IN  IF Panicked(r) THEN Panic(r.panic, s1)
             ELSE IF r.out THEN Ret(TRUE, s1)
             ELSE ChainLoop([s1 EXCEPT !.i = @ + 1], rn)
    ELSE Ret(FALSE, self)

(* A chain that moves on to the next stage after every accepted character. *)
ChainCallAdvances(self, rn) ==
    LET r == ChainLoop(self, rn)
    IN  IF ~Panicked(r) /\ r.out THEN [r EXCEPT !.self.i = @ + 1] ELSE r

(* A chain that starts over once the last stage has rejected. *)
ChainCallRestarts(self, rn) ==
    LET r == ChainLoop(self, rn)
    IN  IF r.self.i = r.self.n THEN [r EXCEPT !.self.i = 0] ELSE r

ChainCall(self, rn) == ChainLoop(self, rn)

FirstOfProbe(self, rn, k) ==
    IF k <= Len(self.accs)
    THEN LET r == Apply(self.accs[k], rn)
             s1 == [self EXCEPT !.accs[k] = r.self]
         IN  IF Panicked(r) THEN Panic(r.panic, s1)
             ELSE IF r.out THEN Ret(TRUE, [s1 EXCEPT !.internal = statify(k)])
             ELSE FirstOfProbe(s1, rn, k + 1)
    ELSE Ret(FALSE, [self EXCEPT !.internal = NilState])

(* An alternation that probes the candidates afresh on every call. *)
FirstOfCallReprobes(self, rn) == FirstOfProbe(self, rn, 1)

FirstOfCall(self, rn) ==
    CASE self.internal.tag = "probe" -> FirstOfProbe(self, rn, 1)
      [] self.internal.tag = "statify" ->
            LET k == self.internal.ref
                r == Apply(self.accs[k], rn)
            IN  [r EXCEPT !.self = [self EXCEPT !.accs[k] = r.self]]
      [] self.internal.tag = "nil" -> Panic(NilDeref, self)

(* A mapping hit that asks the mapped acceptor about the character. *)
BranchCallAsksMapped(self, rn) ==
    CASE self.internal.tag = "dispatch" ->
            LET hit == rn \in DOMAIN self.mapping
                r == IF hit THEN Apply(self.mapping[rn], rn)
                     ELSE Apply(self.alt, rn)
                s1 == IF hit THEN [self EXCEPT !.mapping[rn] = r.self]
                      ELSE [self EXCEPT !.alt = r.self]
                ref == IF hit THEN [slot |-> "mapping", key |-> rn]
                       ELSE [slot |-> "alt"]
            IN  IF Panicked(r) THEN Panic(r.panic, s1)
                ELSE Ret(r.out, [s1 EXCEPT !.internal = statify(ref)])
      [] self.internal.tag = "statify" ->
            IF self.internal.ref.slot = "mapping"
            THEN LET key == self.internal.ref.key
                     r == Apply(self.mapping[key], rn)
                 IN  [r EXCEPT !.self = [self EXCEPT !.mapping[key] = r.self]]
            ELSE LET r == Apply(self.alt, rn)
                 IN  [r EXCEPT !.self = [self EXCEPT !.alt = r.self]]

(* A dispatch that is made afresh on every call. *)
BranchCallRedispatches(self, rn) ==
    IF rn \in DOMAIN self.mapping
    THEN Ret(TRUE, [self EXCEPT !.internal =
                        statify([slot |-> "mapping", key |-> rn])])
    ELSE LET r == Apply(self.alt, rn)
             s1 == [self EXCEPT !.alt = r.self]
         IN  IF Panicked(r) THEN Panic(r.panic, s1)
             ELSE Ret(r.out, [s1 EXCEPT !.internal = statify([slot |-> "alt"])])

BranchCall(self, rn) ==
    CASE self.internal.tag = "dispatch" ->
            IF rn \in DOMAIN self.mapping
            THEN Ret(TRUE, [self EXCEPT !.internal =
                                statify([slot |-> "mapping", key |-> rn])])
            ELSE LET r == Apply(self.alt, rn)
                     s1 == [self EXCEPT !.alt = r.self]
                 IN  IF Panicked(r) THEN Panic(r.panic, s1)
                     ELSE Ret(r.out, [s1 EXCEPT !.internal =
                                         statify([slot |-> "alt"])])
      [] self.internal.tag = "statify" ->
            IF self.internal.ref.slot = "mapping"
            THEN LET key == self.internal.ref.key
                     r == Apply(self.mapping[key], rn)
                 IN  [r EXCEPT !.self = [self EXCEPT !.mapping[key] = r.self]]
            ELSE LET r == Apply(self.alt, rn)
                 IN  [r EXCEPT !.self = [self EXCEPT !.alt = r.self]]

(* An assertion that returns false where it should raise. *)
AssertStartCallRejects(self, rn) ==
    LET r == Apply(self.acc, rn)
        s1 == [self EXCEPT !.acc = r.self]
    IN  CASE self.internal.tag = "first" ->
                IF Panicked(r) THEN Panic(r.panic, s1)
                ELSE IF ~r.out THEN Ret(FALSE, s1)
                ELSE Ret(TRUE, [s1 EXCEPT !.internal = statify("acc")])
          [] self.internal.tag = "statify" -> [r EXCEPT !.self = s1]

AssertStartCall(self, rn) ==
    LET r == Apply(self.acc, rn)
        s1 == [self EXCEPT !.acc = r.self]
    IN  CASE self.internal.tag = "first" ->
                IF Panicked(r) THEN Panic(r.panic, s1)
                ELSE IF ~r.out THEN Panic(self.err, s1)
                ELSE Ret(TRUE, [s1 EXCEPT !.internal = statify("acc")])
          [] self.internal.tag = "statify" -> [r EXCEPT !.self = s1]

(* A ceiling that counts the offending acceptance before it raises. *)
AssertAtMostCallCountsFirst(self, rn) ==
    LET r == Apply(self.acc, rn)
        s1 == [self EXCEPT !.acc = r.self]
        s2 == [s1 EXCEPT !.count = @ + 1]
    IN  IF Panicked(r) THEN Panic(r.panic, s1)
        ELSE IF r.out
        THEN IF self.count = self.most
             THEN Panic(self.err, s2)
             ELSE Ret(TRUE, s2)
        ELSE Ret(FALSE, s1)

(* A ceiling that raises whenever count has reached it: count >= most. *)
AssertAtMostCallReached(self, rn) ==
    LET r == Apply(self.acc, rn)
        s1 == [self EXCEPT !.acc = r.self]
    IN  IF Panicked(r) THEN Panic(r.panic, s1)
        ELSE IF r.out
        THEN IF self.count >= self.most
             THEN Panic(self.err, s1)
             ELSE Ret(TRUE, [s1 EXCEPT !.count = @ + 1])
        ELSE Ret(FALSE, s1)

(* A ceiling that lets one acceptance too many through: count > most. *)
AssertAtMostCallLate(self, rn) ==
    LET r == Apply(self.acc, rn)
        s1 == [self EXCEPT !.acc = r.self]
    IN  IF Panicked(r) THEN Panic(r.panic, s1)
        ELSE IF r.out
        THEN IF self.count > self.most
             THEN Panic(self.err, s1)
             ELSE Ret(TRUE, [s1 EXCEPT !.count = @ + 1])
        ELSE Ret(FALSE, s1)

AssertAtMostCall(self, rn) ==
    LET r == Apply(self.acc, rn)
        s1 == [self EXCEPT !.acc = r.self]
    IN  IF Panicked(r) THEN Panic(r.panic, s1)
        ELSE IF r.out
        THEN IF self.count = self.most
             THEN Panic(self.err, s1)
             ELSE Ret(TRUE, [s1 EXCEPT !.count = @ + 1])
        ELSE Ret(FALSE, s1)

Apply(self, rn) ==
    CASE self.kind = "AccRune" -> AccRuneCall(self, rn)
      [] self.kind = "AccRunes" -> AccRunesCall(self, rn)
      [] self.kind = "AccString" -> AccStringCall(self, rn)
      [] self.kind = "All" -> AllCall(self, rn)
      [] self.kind = "None" -> NoneCall(self, rn)
      [] self.kind = "nil" -> NilCall(self, rn)
      [] self.kind = "Branch" -> BranchCall(self, rn)
      [] self.kind = "FirstOf" -> FirstOfCall(self, rn)
      [] self.kind = "Truncate" -> TruncateCall(self, rn)
      [] self.kind = "EndsBefore" -> EndsBeforeCall(self, rn)
      [] self.kind = "EndsWith" -> EndsWithCall(self, rn)
      [] self.kind = "Chain" -> ChainCall(self, rn)
      [] self.kind = "AssertStart" -> AssertStartCall(self, rn)
      [] self.kind = "AssertAtMost" -> AssertAtMostCall(self, rn)

(***************************************************************************)
(* The acceptors a caller builds, and the caller's loop: one call per      *)
(* character, in order, on one instance.  fresh is the acceptor as built,  *)
(* acc the same instance after the calls so far, input the characters      *)
(* passed and output what each call returned or panicked with.  Nothing in  *)
(* the program recovers from a panic: a call that panics is the last one.  *)
(* printed is what main has written to standard output, and callers the    *)
(* position of each goroutine that shares the instance; a caller that     *)
(* only drives the acceptor prints nothing and is the only one.            *)
(***************************************************************************)

Leaf ==
    {AccRune(r) : r \in Rune}
        \cup {Acc([type |-> "string", val |-> <<97, 98>>]),
              Acc([type |-> "[]rune", val |-> <<120, 121>>]),
              All, None}

Wrapped ==
    {Truncate(m, a) : m \in 0..MaxCount, a \in {All, AccRune(120)}}
        \cup {AssertAtMost(a, m, "errMost") :
                 m \in 0..MaxCount, a \in {All, AccRune(120)}}
        \cup {AssertStart(a, "errStart") : a \in {AccRune(97), AccRune(120)}}
        \cup {EndsWith(98, AccRune(97)), EndsBefore(121, AccRune(120))}

Comp == Leaf \cup Wrapped

Stage ==
    {AccRune(r) : r \in Rune}
        \cup {Truncate(1, AccRune(120)), Truncate(1, All),
              AssertStart(AccRune(97), "errStart"),
              AssertAtMost(AccRune(120), 1, "errMost")}

Target ==
    {AccRune(98), AccRune(120), Truncate(1, All),
     EndsWith(120, AccRune(98)), AssertStart(AccRune(98), "errStart")}

SeqsUpTo(S, n) == UNION {[1..k -> S] : k \in 0..n}

Mappings == UNION {[D -> Target] : D \in {{}, {97}, {97, 120}}}

Built ==
    Comp
        \cup {Acc([type |-> "int", val |-> 0])}
        \cup {Acc([type |-> "Acceptor", val |-> a]) : a \in Leaf}
        \cup {Truncate(m, a) : m \in 0..MaxCount, a \in Comp}
        \cup {EndsBefore(d, a) : d \in Rune, a \in Comp}
        \cup {EndsWith(d, a) : d \in Rune, a \in Comp}
        \cup {AssertStart(a, e) : a \in Comp, e \in Errors}
        \cup {AssertAtMost(a, m, e) : a \in Comp, m \in 0..MaxCount, e \in Errors}
        \cup {Chain(accs) : accs \in SeqsUpTo(Stage, MaxArity)}
        \cup {FirstOf(accs) : accs \in SeqsUpTo(Stage, MaxArity)}
        \cup {Branch(mapping, alt) : mapping \in Mappings, alt \in Target}
        \cup {Skip(n, a) : n \in 0..MaxCount, a \in Target}

NoCallers == [sync |-> TRUE, pc |-> <<>>, reg |-> <<>>]

Init ==
    /\ fresh \in Built
    /\ acc = fresh
    /\ input = <<>>
    /\ output = <<>>
    /\ printed = <<>>
    /\ callers = NoCallers

Aborted == output # <<>> /\ Panicked(output[Len(output)])

Returned(r, rn) ==
    /\ Len(input) < MaxLen
    /\ ~Aborted
    /\ acc' = r.self
    /\ input' = Append(input, rn)
    /\ output' = Append(output, [out |-> r.out, panic |-> r.panic])
    /\ UNCHANGED <<fresh, printed, callers>>

CallAccRune(rn) == acc.kind = "AccRune" /\ Returned(AccRuneCall(acc, rn), rn)

CallAccRunes(rn) == acc.kind = "AccRunes" /\ Returned(AccRunesCall(acc, rn), rn)

CallAccString(rn) ==
    acc.kind = "AccString" /\ Returned(AccStringCall(acc, rn), rn)

CallAll(rn) == acc.kind = "All" /\ Returned(AllCall(acc, rn), rn)

CallNone(rn) == acc.kind = "None" /\ Returned(NoneCall(acc, rn), rn)

CallNil(rn) == acc.kind = "nil" /\ Returned(NilCall(acc, rn), rn)

CallBranch(rn) == acc.kind = "Branch" /\ Returned(BranchCall(acc, rn), rn)

CallFirstOf(rn) == acc.kind = "FirstOf" /\ Returned(FirstOfCall(acc, rn), rn)

CallTruncate(rn) == acc.kind = "Truncate" /\ Returned(TruncateCall(acc, rn), rn)

CallEndsBefore(rn) ==
    acc.kind = "EndsBefore" /\ Returned(EndsBeforeCall(acc, rn), rn)

CallEndsWith(rn) == acc.kind = "EndsWith" /\ Returned(EndsWithCall(acc, rn), rn)

CallChain(rn) == acc.kind = "Chain" /\ Returned(ChainCall(acc, rn), rn)

CallAssertStart(rn) ==
    acc.kind = "AssertStart" /\ Returned(AssertStartCall(acc, rn), rn)

CallAssertAtMost(rn) ==
    acc.kind = "AssertAtMost" /\ Returned(AssertAtMostCall(acc, rn), rn)

Next ==
    \E rn \in Rune :
        \/ CallAccRune(rn)
        \/ CallAccRunes(rn)
        \/ CallAccString(rn)
        \/ CallAll(rn)
        \/ CallNone(rn)
        \/ CallNil(rn)
        \/ CallBranch(rn)
        \/ CallFirstOf(rn)
        \/ CallTruncate(rn)
        \/ CallEndsBefore(rn)
        \/ CallEndsWith(rn)
        \/ CallChain(rn)
        \/ CallAssertStart(rn)
        \/ CallAssertAtMost(rn)

Spec == Init /\ [][Next]_vars

TypeOK ==
    /\ Len(input) = Len(output)
    /\ Len(input) <= MaxLen
    /\ acc.kind = fresh.kind

(***************************************************************************)
(* What an acceptor driven on its own answers: Feed(a, s) calls a with the *)
(* characters of s in order and yields the instance afterwards and the     *)
(* results of the calls.                                                   *)
(***************************************************************************)

RECURSIVE Feed(_, _)

Feed(a, s) ==
    IF s = <<>>
    THEN [self |-> a, outs |-> <<>>]
    ELSE LET before == Feed(a, SubSeq(s, 1, Len(s) - 1))
             r == Apply(before.self, s[Len(s)])
         IN  [self |-> r.self,
              outs |-> Append(before.outs, [out |-> r.out, panic |-> r.panic])]

Outs(a, s) == Feed(a, s).outs

Accepts(a, rn) == LET r == Apply(a, rn) IN ~Panicked(r) /\ r.out

Rejects(a, rn) == LET r == Apply(a, rn) IN ~Panicked(r) /\ ~r.out

Raises(a, rn) == Panicked(Apply(a, rn))

True == [out |-> TRUE, panic |-> NoPanic]

False == [out |-> FALSE, panic |-> NoPanic]

Raise(err) == [out |-> FALSE, panic |-> err]

Min(S) == CHOOSE m \in S : \A k \in S : m <= k

NumTrue(outs) == Cardinality({k \in 1..Len(outs) : outs[k] = True})

(* A call has just been made: rn and res are its character and result. *)
Called == input' # input

rn1 == input'[Len(input')]

res1 == output'[Len(output')]

(***************************************************************************)
(* C1: a call of Chain(acc_1..acc_n) with cursor i tries the acceptors     *)
(* from index i on, in order, against the same character; if none of them  *)
(* raises, the call returns true iff one of them accepts, the cursor rests *)
(* on the first that accepts (on n if none does), the acceptors before it  *)
(* have each been asked once and the ones after it have not been asked.    *)
(* Chain(Truncate(1, Acc('x')), Acc('y')) yields [true, true] on "xy" and  *)
(* on "yy", and [true, false] on "xx".                                     *)
(***************************************************************************)
ChainXY == Chain(<<Truncate(1, AccRune(120)), AccRune(121)>>)

C1_Step ==
    (acc.kind = "Chain" /\ Called /\ ~Panicked(res1)) =>
        LET J == {j \in acc.i..(acc.n - 1) : Accepts(acc.accs[j + 1], rn1)}
            stop == IF J = {} THEN acc.n ELSE Min(J)
        IN  /\ res1.out = (J # {})
            /\ acc'.i = stop
            /\ acc'.i >= acc.i
            /\ \A j \in 0..(acc.n - 1) :
                  acc'.accs[j + 1] =
                      IF acc.i <= j /\ j <= stop
                      THEN Apply(acc.accs[j + 1], rn1).self
                      ELSE acc.accs[j + 1]

C1_Examples ==
    fresh = ChainXY =>
        /\ input = <<120, 121>> => output = <<True, True>>
        /\ input = <<121, 121>> => output = <<True, True>>
        /\ input = <<120, 120>> => output = <<True, False>>

C1_Chain == [][C1_Step]_vars /\ []C1_Examples

C1_Witness ==
    /\ fresh = ChainXY
    /\ input = <<120, 121, 121>>
    /\ output = <<True, True, True>>
    /\ acc.i = 1

(***************************************************************************)
(* C2: when the first call of FirstOf(acc_1..acc_n) returns and some       *)
(* candidate accepts the first character, the call returns true, the first *)
(* candidate in listed order that accepts is the delegate from then on,    *)
(* every call returns what that candidate driven alone returns, and the    *)
(* other candidates are never asked again: the ones listed before the      *)
(* delegate were asked the first character only, the ones after it nothing.*)
(* FirstOf(Acc('a'), Acc('b')) yields [true, false] on "ab" and            *)
(* [true, true] on "bb".                                                   *)
(***************************************************************************)
FirstOfAB == FirstOf(<<AccRune(97), AccRune(98)>>)

C2_Commit ==
    (acc.kind = "FirstOf" /\ input # <<>> /\ ~Panicked(output[1])) =>
        LET W == {k \in 1..Len(fresh.accs) : Accepts(fresh.accs[k], input[1])}
        IN  W # {} =>
                LET w == Min(W)
                IN  /\ output[1] = True
                    /\ acc.internal = statify(w)
                    /\ output = Outs(fresh.accs[w], input)
                    /\ \A j \in 1..Len(fresh.accs) :
                          /\ j < w =>
                                acc.accs[j] = Apply(fresh.accs[j], input[1]).self
                          /\ j > w => acc.accs[j] = fresh.accs[j]

C2_Examples ==
    fresh = FirstOfAB =>
        /\ input = <<97, 98>> => output = <<True, False>>
        /\ input = <<98, 98>> => output = <<True, True>>

C2_FirstOf == C2_Commit /\ C2_Examples

C2_Witness ==
    /\ fresh = FirstOf(<<Truncate(1, AccRune(120)), AccRune(120)>>)
    /\ input = <<120, 120, 120>>
    /\ output = <<True, False, False>>

(***************************************************************************)
(* C3: when the first character passed to Branch(mapping, alt) is a key of *)
(* mapping, the first call returns true without asking the mapped          *)
(* acceptor, the later calls return what the mapped acceptor returns when  *)
(* driven alone with the characters from the second one on, and the switch *)
(* is permanent: alt and the other mapped acceptors are never asked, also  *)
(* when a later character is a key of mapping.                             *)
(***************************************************************************)
C3_BranchHit ==
    (acc.kind = "Branch" /\ input # <<>> /\ input[1] \in DOMAIN fresh.mapping) =>
        LET key == input[1]
            alone == Feed(fresh.mapping[key], Tail(input))
        IN  /\ output[1] = True
            /\ Tail(output) = alone.outs
            /\ acc.internal = statify([slot |-> "mapping", key |-> key])
            /\ acc.mapping[key] = alone.self
            /\ acc.alt = fresh.alt
            /\ \A other \in DOMAIN fresh.mapping \ {key} :
                  acc.mapping[other] = fresh.mapping[other]

C3_Witness ==
    /\ fresh.kind = "Branch"
    /\ DOMAIN fresh.mapping = {97, 120}
    /\ fresh.mapping[97] = AccRune(98)
    /\ fresh.mapping[120] = Truncate(1, All)
    /\ fresh.alt = AccRune(120)
    /\ input = <<97, 120, 98>>
    /\ output = <<True, False, True>>

(***************************************************************************)
(* C4: when the first character passed to Branch(mapping, alt) is not a    *)
(* key of mapping, every call of the stream, the first included, returns   *)
(* what alt driven alone returns on the whole stream; alt is the           *)
(* continuation once the first call has returned, and no mapped acceptor   *)
(* is ever asked, also when a later character is a key of mapping.         *)
(***************************************************************************)
C4_BranchMiss ==
    (acc.kind = "Branch" /\ input # <<>> /\ input[1] \notin DOMAIN fresh.mapping) =>
        LET alone == Feed(fresh.alt, input)
        IN  /\ output = alone.outs
            /\ acc.alt = alone.self
            /\ acc.mapping = fresh.mapping
            /\ ~Panicked(output[1]) => acc.internal = statify([slot |-> "alt"])

C4_Witness ==
    /\ fresh.kind = "Branch"
    /\ DOMAIN fresh.mapping = {97}
    /\ fresh.mapping[97] = AccRune(120)
    /\ fresh.alt = Truncate(1, All)
    /\ input = <<98, 97>>
    /\ output = <<True, False>>

(***************************************************************************)
(* C5: for Truncate(max, acc) with max >= 0, the count is the number of    *)
(* calls that returned true so far, it is at most max, it never decreases, *)
(* and a call made once max calls have returned true returns false         *)
(* whatever the wrapped acceptor would answer.                             *)
(***************************************************************************)
C5_Count ==
    acc.kind = "Truncate" =>
        /\ acc.max >= 0
        /\ acc.count = NumTrue(output)
        /\ NumTrue(output) <= acc.max

C5_Step ==
    (acc.kind = "Truncate" /\ Called) =>
        /\ acc'.count >= acc.count
        /\ NumTrue(output) = acc.max => res1 = False /\ acc'.acc = acc.acc

C5_Truncate == []C5_Count /\ [][C5_Step]_vars

C5_Witness ==
    /\ fresh = Truncate(2, All)
    /\ input = <<97, 120, 97>>
    /\ output = <<True, True, False>>
    /\ acc.count = 2

(***************************************************************************)
(* C6: for EndsWith(delim, acc), the calls before the first delim return   *)
(* what acc driven alone returns on those characters, the call with the    *)
(* first delim returns true without asking acc, every later call returns   *)
(* false without asking acc, and seen, true from the first delim on, is    *)
(* never reset.                                                            *)
(***************************************************************************)
FirstDelim(s, delim) ==
    LET D == {k \in 1..Len(s) : s[k] = delim}
    IN  IF D = {} THEN Len(s) + 1 ELSE Min(D)

C6_Stream ==
    acc.kind = "EndsWith" =>
        LET d == FirstDelim(input, fresh.delim)
            alone == Feed(fresh.acc, SubSeq(input, 1, d - 1))
        IN  /\ SubSeq(output, 1, d - 1) = alone.outs
            /\ acc.acc = alone.self
            /\ acc.seen = (d <= Len(input))
            /\ \A k \in 1..Len(input) :
                  /\ k = d => output[k] = True
                  /\ k > d => output[k] = False

C6_Step == (acc.kind = "EndsWith" /\ acc.seen) => acc'.seen

C6_EndsWith == []C6_Stream /\ [][C6_Step]_vars

C6_Witness ==
    /\ fresh = EndsWith(98, AccRune(97))
    /\ input = <<97, 98, 98>>
    /\ output = <<True, True, False>>
    /\ acc.seen

(***************************************************************************)
(* C7: for EndsBefore(delim, acc), every call with delim returns false and *)
(* every other call returns what acc returns, acc being asked exactly the  *)
(* characters other than delim, also those that come after a delim: the    *)
(* state of acc is the one it has when driven alone with them.             *)
(***************************************************************************)
NotDelim(s, delim) == SelectSeq(s, LAMBDA c : c # delim)

(* How many of the first k characters of s are not delim. *)
Passed(s, delim, k) == Len(NotDelim(SubSeq(s, 1, k), delim))

C7_EndsBefore ==
    acc.kind = "EndsBefore" =>
        LET alone == Feed(fresh.acc, NotDelim(input, fresh.delim))
        IN  /\ acc.acc = alone.self
            /\ acc.delim = fresh.delim
            /\ \A k \in 1..Len(input) :
                  output[k] =
                      IF input[k] = fresh.delim
                      THEN False
                      ELSE alone.outs[Passed(input, fresh.delim, k)]

C7_Witness ==
    /\ fresh = EndsBefore(121, Truncate(1, All))
    /\ input = <<121, 97, 97>>
    /\ output = <<False, True, False>>

(***************************************************************************)
(* C8: for AssertStart(acc, err), a first call on which acc rejects raises *)
(* err as supplied; a first call on which acc accepts returns true, and    *)
(* from then on the closure is statify(acc): every call returns what acc   *)
(* driven alone returns on the stream.                                     *)
(***************************************************************************)
C8_AssertStart ==
    (acc.kind = "AssertStart" /\ input # <<>>) =>
        /\ Rejects(fresh.acc, input[1]) =>
              /\ output = <<Raise(fresh.err)>>
              /\ acc.internal.tag = "first"
        /\ Accepts(fresh.acc, input[1]) =>
              LET alone == Feed(fresh.acc, input)
              IN  /\ output[1] = True
                  /\ output = alone.outs
                  /\ acc.acc = alone.self
                  /\ acc.internal = statify("acc")

C8_Witness ==
    /\ fresh = AssertStart(AccRune(97), "errMost")
    /\ input = <<120>>
    /\ output = <<Raise("errMost")>>

C8_Accepted ==
    /\ fresh = AssertStart(AccRune(97), "errStart")
    /\ input = <<97, 120, 97>>
    /\ output = <<True, False, True>>

(***************************************************************************)
(* C9: for AssertAtMost(acc, most, err) with most >= 0, acc is asked on    *)
(* every call; a call on which acc rejects returns false; a call on which  *)
(* acc accepts returns true while fewer than most calls have returned      *)
(* true, and raises err once most calls have.  At most most calls return   *)
(* true.                                                                   *)
(***************************************************************************)
C9_AssertAtMost ==
    acc.kind = "AssertAtMost" =>
        LET alone == Feed(fresh.acc, input)
        IN  /\ fresh.most >= 0
            /\ acc.acc = alone.self
            /\ acc.count = NumTrue(output)
            /\ NumTrue(output) <= fresh.most
            /\ \A k \in 1..Len(input) :
                  LET before == NumTrue(SubSeq(output, 1, k - 1))
                  IN  /\ alone.outs[k] = False => output[k] = False
                      /\ before < fresh.most => output[k] = alone.outs[k]
                      /\ (alone.outs[k] = True /\ before = fresh.most) =>
                            output[k] = Raise(fresh.err)

C9_Witness ==
    /\ fresh = AssertAtMost(AccRune(120), 1, "errStart")
    /\ input = <<97, 120, 120>>
    /\ output = <<False, True, Raise("errStart")>>

(***************************************************************************)
(* C10: when the stage a Chain call reaches, or the candidate a FirstOf    *)
(* call reaches, is an AssertStart or AssertAtMost acceptor that raises on *)
(* the character, the enclosing call raises the same failure: it does not  *)
(* return, the Chain cursor stays on that stage, FirstOf commits to no     *)
(* candidate, and no later stage or candidate is asked.                    *)
(***************************************************************************)
IsAssertion(a) == a.kind \in {"AssertStart", "AssertAtMost"}

(* The positions in from..Len(accs) that a left-to-right scan of accs      *)
(* reaches (everything before rejects) and where an assertion raises.      *)
RaisingAt(accs, from, rn) ==
    {j \in from..Len(accs) :
        /\ IsAssertion(accs[j])
        /\ Raises(accs[j], rn)
        /\ \A k \in from..(j - 1) : Rejects(accs[k], rn)}

C10_Chain ==
    (acc.kind = "Chain" /\ Called) =>
        \A j \in RaisingAt(acc.accs, acc.i + 1, rn1) :
            /\ res1 = Raise(Apply(acc.accs[j], rn1).panic)
            /\ acc'.i = j - 1
            /\ \A k \in (j + 1)..acc.n : acc'.accs[k] = acc.accs[k]

C10_FirstOf ==
    (acc.kind = "FirstOf" /\ Called) =>
        /\ acc.internal.tag = "probe" =>
              \A j \in RaisingAt(acc.accs, 1, rn1) :
                  /\ res1 = Raise(Apply(acc.accs[j], rn1).panic)
                  /\ acc'.internal = acc.internal
                  /\ \A k \in (j + 1)..Len(acc.accs) :
                        acc'.accs[k] = acc.accs[k]
        /\ acc.internal.tag = "statify" =>
              LET w == acc.accs[acc.internal.ref]
              IN  (IsAssertion(w) /\ Raises(w, rn1)) =>
                      res1 = Raise(Apply(w, rn1).panic)

C10_Propagates == [][C10_Chain /\ C10_FirstOf]_vars

C10_Witness ==
    /\ fresh = Chain(<<AssertAtMost(AccRune(120), 1, "errMost"), AccRune(120)>>)
    /\ input = <<120, 120>>
    /\ output = <<True, Raise("errMost")>>
    /\ acc.i = 0
    /\ acc.accs[2] = fresh.accs[2]

C10_WitnessFirstOf ==
    /\ fresh = FirstOf(<<AssertStart(AccRune(97), "errStart"), AccRune(120)>>)
    /\ input = <<120>>
    /\ output = <<Raise("errStart")>>
    /\ acc.internal.tag = "probe"

(***************************************************************************)
(* C11 (as amended): for Skip(n, acc) with n >= 0, a call after the first  *)
(* n returns what acc, driven alone with the characters from position      *)
(* n + 1 on, returns for that character, as long as acc has rejected none  *)
(* of the earlier ones; once acc has rejected a character the Chain cursor *)
(* is past acc and every later call returns false without asking acc.      *)
(***************************************************************************)
Skips == {sk \in (0..MaxCount) \X Target : fresh = Skip(sk[1], sk[2])}

(* The results acc alone gives on the characters after the first n. *)
AfterSkip(n, a) == Outs(a, SubSeq(input, n + 1, Len(input)))

(* acc alone has rejected one of the characters n + 1 .. k - 1. *)
RejectedBefore(n, a, k) == \E j \in 1..(k - n - 1) : AfterSkip(n, a)[j] = False

C11_SkipUntilRejection ==
    \A sk \in Skips :
        LET n == sk[1]
            a == sk[2]
        IN  \A k \in (n + 1)..Len(input) :
                output[k] = IF RejectedBefore(n, a, k)
                            THEN False
                            ELSE AfterSkip(n, a)[k - n]

C11_Witness ==
    /\ fresh = Skip(1, AccRune(98))
    /\ input = <<97, 97, 98>>
    /\ output = <<True, False, False>>
    /\ acc.i = 2

(* C11 as claimed: every call after the first n returns what acc alone     *)
(* returns, also after acc has rejected a character.                       *)
C11_SkipDelegatesForever ==
    \A sk \in Skips :
        \A k \in (sk[1] + 1)..Len(input) :
            output[k] = AfterSkip(sk[1], sk[2])[k - sk[1]]

(***************************************************************************)
(* C12: for Skip(n, acc) with n >= 0, each of the first n calls returns    *)
(* true whatever the character, acc is not asked about any of them, and    *)
(* the character of call n + 1 is the first one acc is asked about.        *)
(***************************************************************************)
C12_SkipPrefix ==
    \A sk \in Skips :
        LET n == sk[1]
            a == sk[2]
        IN  /\ \A k \in 1..Len(input) : k <= n => output[k] = True
            /\ Len(input) <= n => acc.accs[2] = a
            /\ Len(input) = n + 1 => acc.accs[2] = Apply(a, input[n + 1]).self

C12_Witness ==
    /\ fresh = Skip(2, Truncate(1, All))
    /\ input = <<97, 120, 98>>
    /\ output = <<True, True, True>>
    /\ acc.accs[2].count = 1

(***************************************************************************)
(* C13 (as claimed): when no candidate of FirstOf(acc_1..acc_n) accepts    *)
(* the first character (also n = 0), the first call returns false and so   *)
(* does every later call, whatever the character.                          *)
(***************************************************************************)
NoneAccepts == \A k \in 1..Len(fresh.accs) : Rejects(fresh.accs[k], input[1])

C13_FirstOfRejectsForever ==
    (acc.kind = "FirstOf" /\ input # <<>> /\ NoneAccepts) =>
        \A k \in 1..Len(output) : output[k] = False

(***************************************************************************)
(* C14: the cursor of Chain(acc_1..acc_n) stays within 0..n and never      *)
(* goes back; a call returns false only with the cursor left on n; a call  *)
(* made with the cursor on n returns false and asks no stage; a stage the  *)
(* cursor has moved past is never asked again.                             *)
(***************************************************************************)
C14_Cursor == acc.kind = "Chain" => (0 <= acc.i /\ acc.i <= acc.n)

C14_Step ==
    (acc.kind = "Chain" /\ Called) =>
        /\ acc'.i >= acc.i
        /\ res1 = False => acc'.i = acc.n
        /\ acc.i = acc.n => (res1 = False /\ acc' = acc)
        /\ \A j \in 1..acc.i : acc'.accs[j] = acc.accs[j]

C14_ChainAbsorbs == []C14_Cursor /\ [][C14_Step]_vars

C14_Witness ==
    /\ fresh = ChainXY
    /\ input = <<120, 120, 121>>
    /\ output = <<True, False, False>>
    /\ acc.i = 2
    /\ acc.accs[1].count = 1

(***************************************************************************)
(* C15 (as amended): Truncate(max, acc) does not latch on a rejection by   *)
(* acc: while fewer than max calls have returned true, acc is asked on     *)
(* every call and the call returns what acc returns, also after acc has    *)
(* rejected an earlier character; only max true results make every later   *)
(* call return false.                                                      *)
(***************************************************************************)
TruesBefore(k) == NumTrue(SubSeq(output, 1, k - 1))

C15_NoLatch ==
    acc.kind = "Truncate" =>
        \A k \in 1..Len(input) :
            output[k] = IF TruesBefore(k) < fresh.max
                        THEN Outs(fresh.acc, input)[k]
                        ELSE False

C15_Witness ==
    /\ fresh = Truncate(2, AccRune(120))
    /\ input = <<97, 120>>
    /\ output = <<False, True>>
    /\ acc.count = 1

(* C15 as claimed: once acc has rejected a character (a call made below    *)
(* the bound returned false), every later call returns false.              *)
C15_LatchesOnRejection ==
    acc.kind = "Truncate" =>
        \A j \in 1..Len(input) :
            (TruesBefore(j) < fresh.max /\ output[j] = False) =>
                \A k \in (j + 1)..Len(input) : output[k] = False

(***************************************************************************)
(* main: the demo drives one acceptor with the characters of src and       *)
(* prints what happens, stopping at the first rejection.  The acceptor of  *)
(* the source is EndsBefore('m', All()); the delimiter literal is varied   *)
(* over the characters of src and one character that src does not hold.    *)
(* src[:i+1] and src[i+1:] slice by byte offset, which for this ASCII      *)
(* string is the character index.                                          *)
(***************************************************************************)

(* "This is a demo." *)
DemoSrc ==
    <<84, 104, 105, 115, 32, 105, 115, 32, 97, 32, 100, 101, 109, 111, 46>>

DemoDelims == {DemoSrc[k] : k \in 1..Len(DemoSrc)} \cup {120}

DemoAcceptors == {EndsBefore(d, All) : d \in DemoDelims}

Consumed(src, i) == SubSeq(src, 1, i + 1)

(* A remainder that starts at the rejected character: src[i:]. *)
RemainingFromRejected(src, i) == SubSeq(src, i + 1, Len(src))

Remaining(src, i) == SubSeq(src, i + 2, Len(src))

Line(kind, rn, at, text) == [line |-> kind, rn |-> rn, at |-> at, text |-> text]

DemoHeader ==
    <<Line("Acceptor", 0, 0, <<>>), Line("Source", 0, 0, DemoSrc)>>

LastLine == printed[Len(printed)].line

DemoInit ==
    /\ fresh \in DemoAcceptors
    /\ acc = fresh
    /\ input = <<>>
    /\ output = <<>>
    /\ printed = DemoHeader
    /\ callers = NoCallers

(* The loop is still running: no break yet and characters are left. *)
DemoLooping ==
    /\ LastLine \in {"Source", "Accepted"}
    /\ Len(input) < Len(DemoSrc)

DemoCall(r, rn) ==
    /\ acc' = r.self
    /\ input' = Append(input, rn)
    /\ output' = Append(output, [out |-> r.out, panic |-> r.panic])
    /\ UNCHANGED <<fresh, callers>>

DemoAccept ==
    /\ DemoLooping
    /\ LET i == Len(input)
           rn == DemoSrc[i + 1]
           r == Apply(acc, rn)
       IN  /\ ~Panicked(r) /\ r.out
           /\ DemoCall(r, rn)
           /\ printed' = Append(printed, Line("Accepted", rn, i, <<>>))

DemoReject ==
    /\ DemoLooping
    /\ LET i == Len(input)
           rn == DemoSrc[i + 1]
           r == Apply(acc, rn)
       IN  /\ ~Panicked(r) /\ ~r.out
           /\ DemoCall(r, rn)
           /\ printed' = printed \o
                  <<Line("Rejected", rn, i, <<>>),
                    Line("Consumed", 0, 0, Consumed(DemoSrc, i)),
                    Line("Remaining", 0, 0, Remaining(DemoSrc, i))>>

DemoComplete ==
    /\ ~DemoLooping
    /\ LastLine # "Program complete."
    /\ printed' = Append(printed, Line("Program complete.", 0, 0, <<>>))
    /\ UNCHANGED <<fresh, acc, input, output, callers>>

DemoNext == DemoAccept \/ DemoReject \/ DemoComplete

SpecDemo == DemoInit /\ [][DemoNext]_vars

(***************************************************************************)
(* C16 (as amended): the demo acceptor EndsBefore('m', All()) accepts the  *)
(* characters at indices 0 through 11 ("This is a de") and no others, the  *)
(* first rejection is at index 12 on 'm', the consumed string printed is   *)
(* "This is a dem" and the remaining string printed is "o.".               *)
(***************************************************************************)
Lines(kind) == {k \in 1..Len(printed) : printed[k].line = kind}

AcceptedAt == {printed[k].at : k \in Lines("Accepted")}

DemoM == fresh = EndsBefore(109, All)

C16_Demo ==
    DemoM =>
        /\ AcceptedAt \subseteq 0..11
        /\ \A k \in Lines("Accepted") : printed[k].rn = DemoSrc[printed[k].at + 1]
        /\ \A k \in Lines("Rejected") :
              /\ AcceptedAt = 0..11
              /\ printed[k].at = 12
              /\ printed[k].rn = 109
        /\ \A k \in Lines("Consumed") :
              printed[k].text =
                  <<84, 104, 105, 115, 32, 105, 115, 32, 97, 32, 100, 101, 109>>
        /\ \A k \in Lines("Remaining") : printed[k].text = <<111, 46>>
        /\ LastLine = "Program complete." => Lines("Rejected") # {}

C16_Witness ==
    /\ DemoM
    /\ LastLine = "Program complete."
    /\ Cardinality(Lines("Rejected")) = 1
    /\ Cardinality(Lines("Accepted")) = 12

(* C16 as claimed: accepted are the indices 0 through 10, the rejection is *)
(* at index 11 on 'm', consumed is "This is a dm" and remaining is "o.".   *)
C16_DemoAsClaimed ==
    DemoM =>
        /\ AcceptedAt \subseteq 0..10
        /\ \A k \in Lines("Rejected") :
              /\ AcceptedAt = 0..10
              /\ printed[k].at = 11
              /\ printed[k].rn = 109
        /\ \A k \in Lines("Consumed") :
              printed[k].text =
                  <<84, 104, 105, 115, 32, 105, 115, 32, 97, 32, 100, 109>>
        /\ \A k \in Lines("Remaining") : printed[k].text = <<111, 46>>

(***************************************************************************)
(* C17: a leaf acceptor answers every call from the character alone:       *)
(* Acc of a rune L returns true iff the character is L, Acc of a []rune or *)
(* a string S returns true iff the character occurs in S, All returns true *)
(* and None false, whatever was passed before; no call changes the leaf.   *)
(***************************************************************************)
Elements(S) == {S[k] : k \in 1..Len(S)}

Pure(expected(_)) ==
    /\ acc = fresh
    /\ \A k \in 1..Len(input) : output[k] = IF expected(input[k]) THEN True ELSE False

C17_Leaves ==
    /\ acc.kind = "AccRune" => Pure(LAMBDA c : c = fresh.spec)
    /\ acc.kind \in {"AccRunes", "AccString"} =>
          Pure(LAMBDA c : c \in Elements(fresh.spec))
    /\ acc.kind = "All" => Pure(LAMBDA c : TRUE)
    /\ acc.kind = "None" => Pure(LAMBDA c : FALSE)

C17_Witness ==
    /\ fresh = Acc([type |-> "[]rune", val |-> <<120, 121>>])
    /\ input = <<121, 97, 121>>
    /\ output = <<True, False, True>>

(***************************************************************************)
(* Two goroutines that share one Truncate(max, All()) instance.  The body  *)
(* of the closure is three accesses to the captured count: the read of the *)
(* test count < max, and the read and the write of count++.  Without       *)
(* synchronisation (callers.sync false) the accesses of the two callers    *)
(* interleave in any order; with the calls serialised (callers.sync true)  *)
(* a call starts only when no other call is under way.                     *)
(***************************************************************************)
Callers == {1, 2}

TruncateTestOffByOne(count, max) == count <= max

TruncateTest(count, max) == count < max

RaceInit ==
    /\ fresh \in {Truncate(max, All) : max \in 1..MaxCount}
    /\ acc = fresh
    /\ input = <<>>
    /\ output = <<>>
    /\ printed = <<>>
    /\ callers \in {[sync |-> s,
                     pc |-> [c \in Callers |-> "idle"],
                     reg |-> [c \in Callers |-> 0]] : s \in BOOLEAN}

MayEnter(c) ==
    /\ callers.pc[c] = "idle"
    /\ Len(input) < MaxLen
    /\ callers.sync => \A o \in Callers : callers.pc[o] = "idle"

(* count < max && acc(rn) holds: go on to count++. *)
RaceTestPass(c, rn) ==
    /\ MayEnter(c)
    /\ TruncateTest(acc.count, acc.max) /\ Accepts(acc.acc, rn)
    /\ input' = Append(input, rn)
    /\ callers' = [callers EXCEPT !.pc[c] = "load"]
    /\ UNCHANGED <<fresh, acc, output, printed>>

(* The test fails: return false. *)
RaceTestFail(c, rn) ==
    /\ MayEnter(c)
    /\ ~(TruncateTest(acc.count, acc.max) /\ Accepts(acc.acc, rn))
    /\ input' = Append(input, rn)
    /\ output' = Append(output, False)
    /\ UNCHANGED <<fresh, acc, printed, callers>>

(* count++ reads count ... *)
RaceLoad(c) ==
    /\ callers.pc[c] = "load"
    /\ callers' = [callers EXCEPT !.pc[c] = "store", !.reg[c] = acc.count]
    /\ UNCHANGED <<fresh, acc, input, output, printed>>

(* ... and writes it back incremented; then return true. *)
RaceStore(c) ==
    /\ callers.pc[c] = "store"
    /\ acc' = [acc EXCEPT !.count = callers.reg[c] + 1]
    /\ output' = Append(output, True)
    /\ callers' = [callers EXCEPT !.pc[c] = "idle"]
    /\ UNCHANGED <<fresh, input, printed>>

RaceNext ==
    \E c \in Callers :
        \/ \E rn \in Rune : RaceTestPass(c, rn)
        \/ \E rn \in Rune : RaceTestFail(c, rn)
        \/ RaceLoad(c)
        \/ RaceStore(c)

SpecRace == RaceInit /\ [][RaceNext]_vars

(***************************************************************************)
(* C18: with the calls on one Truncate(max, All()) instance serialised, no *)
(* more than max calls return true and count is the number of calls that   *)
(* returned true; more than max true results are reached only by callers   *)
(* that are not synchronised, whose test and increment interleave.         *)
(***************************************************************************)
C18_Race ==
    /\ callers.sync =>
          /\ NumTrue(output) <= fresh.max
          /\ acc.count = NumTrue(output)
    /\ NumTrue(output) > fresh.max => ~callers.sync

C18_Witness ==
    /\ ~callers.sync
    /\ fresh.max >= 1
    /\ NumTrue(output) > fresh.max
    /\ \A c \in Callers : callers.pc[c] = "idle"

(***************************************************************************)
(* Ceilings that are zero or negative: AssertAtMost and Truncate built     *)
(* with most, max <= 0 and driven like any other acceptor.                 *)
(***************************************************************************)
Ceilings == (0 - MaxCount)..0

CeilingInit ==
    /\ fresh \in {AssertAtMost(a, most, e) :
                     a \in Comp, most \in Ceilings, e \in Errors}
                 \cup {Truncate(max, a) : max \in Ceilings, a \in Comp}
    /\ acc = fresh
    /\ input = <<>>
    /\ output = <<>>
    /\ printed = <<>>
    /\ callers = NoCallers

CeilingNext == \E rn \in Rune : CallTruncate(rn) \/ CallAssertAtMost(rn)

SpecCeiling == CeilingInit /\ [][CeilingNext]_vars

(***************************************************************************)
(* C19: AssertAtMost(acc, most, err) with most < 0 never raises err: count *)
(* starts at 0 and only grows, so every call returns what acc returns and  *)
(* any number of calls return true; with most = 0 the first character acc  *)
(* accepts raises err; Truncate(max, acc) with max <= 0 returns false on   *)
(* every call without asking acc.                                          *)
(***************************************************************************)
C19_Ceilings ==
    /\ (acc.kind = "AssertAtMost" /\ fresh.most < 0) =>
          /\ output = Outs(fresh.acc, input)
          /\ acc.count = NumTrue(output)
          /\ acc.count # fresh.most
    /\ (acc.kind = "AssertAtMost" /\ fresh.most = 0) =>
          /\ NumTrue(output) = 0
          /\ \A k \in 1..Len(input) :
                Outs(fresh.acc, input)[k] = True => output[k] = Raise(fresh.err)
    /\ (acc.kind = "Truncate" /\ fresh.max <= 0) =>
          /\ \A k \in 1..Len(input) : output[k] = False
          /\ acc = fresh

C19_Witness ==
    /\ fresh = AssertAtMost(All, 0 - 1, "errMost")
    /\ Len(input) = MaxLen
    /\ NumTrue(output) = MaxLen
    /\ acc.count = MaxLen

(***************************************************************************)
(* A caller that recovers from the panic of an assertion and goes on       *)
(* driving the same instance.                                              *)
(***************************************************************************)
RecoverInit ==
    /\ fresh \in {AssertStart(a, e) : a \in Comp, e \in Errors}
                 \cup {AssertAtMost(a, m, e) :
                          a \in Comp, m \in 0..MaxCount, e \in Errors}
    /\ acc = fresh
    /\ input = <<>>
    /\ output = <<>>
    /\ printed = <<>>
    /\ callers = NoCallers

Recovered(r, rn) ==
    /\ Len(input) < MaxLen
    /\ Aborted
    /\ acc' = r.self
    /\ input' = Append(input, rn)
    /\ output' = Append(output, [out |-> r.out, panic |-> r.panic])
    /\ UNCHANGED <<fresh, printed, callers>>

RecoverAssertStart(rn) ==
    acc.kind = "AssertStart" /\ Recovered(AssertStartCall(acc, rn), rn)

RecoverAssertAtMost(rn) ==
    acc.kind = "AssertAtMost" /\ Recovered(AssertAtMostCall(acc, rn), rn)

RecoverNext ==
    \E rn \in Rune :
        \/ CallAssertStart(rn)
        \/ CallAssertAtMost(rn)
        \/ RecoverAssertStart(rn)
        \/ RecoverAssertAtMost(rn)

SpecRecover == RecoverInit /\ [][RecoverNext]_vars

(***************************************************************************)
(* C20: when the caller recovers and goes on, AssertStart stays on its     *)
(* first-call check until a call returns true: every call made before      *)
(* that raises err if acc rejects the character; AssertAtMost, once it has *)
(* raised, keeps count equal to most, raises again on every character acc  *)
(* accepts and never returns true again.  Either way acc has been asked    *)
(* about every character passed, the offending ones included.              *)
(***************************************************************************)
C20_AssertStart ==
    acc.kind = "AssertStart" =>
        LET alone == Feed(fresh.acc, input)
        IN  /\ acc.acc = alone.self
            /\ (acc.internal.tag = "first") = (NumTrue(output) = 0)
            /\ \A k \in 1..Len(input) :
                  output[k] = IF TruesBefore(k) = 0 /\ alone.outs[k] = False
                              THEN Raise(fresh.err)
                              ELSE alone.outs[k]

C20_AssertAtMost ==
    acc.kind = "AssertAtMost" =>
        LET alone == Feed(fresh.acc, input)
        IN  /\ acc.acc = alone.self
            /\ acc.count = NumTrue(output)
            /\ acc.count <= fresh.most
            /\ \A k \in 1..Len(input) :
                  output[k] = IF TruesBefore(k) = fresh.most /\ alone.outs[k] = True
                              THEN Raise(fresh.err)
                              ELSE alone.outs[k]
            /\ \A j \in 1..Len(input) :
                  (TruesBefore(j) = fresh.most /\ alone.outs[j] = True) =>
                      /\ acc.count = fresh.most
                      /\ \A k \in (j + 1)..Len(input) : output[k] # True

C20_StaysArmed == C20_AssertStart /\ C20_AssertAtMost

C20_Witness ==
    /\ fresh = AssertAtMost(AccRune(120), 1, "errMost")
    /\ input = <<120, 120, 120>>
    /\ output = <<True, Raise("errMost"), Raise("errMost")>>
    /\ acc.count = 1

C20_WitnessAssertStart ==
    /\ fresh = AssertStart(AccRune(97), "errStart")
    /\ input = <<120, 120, 97>>
    /\ output = <<Raise("errStart"), Raise("errStart"), True>>
    /\ acc.internal = statify("acc")

====
